---- MODULE Spec2Model ----
(***************************************************************************)
(* Configuration resolution and validation of keycloak-proxy (config.go):  *)
(* newDefaultConfig -> readConfigFile -> readOptions -> Config.isValid.    *)
(*                                                                         *)
(* Go strings are TLA+ strings (TLC evaluates Len, SubSeq, \o on them);    *)
(* slices are sequences; maps are functions over a finite set of keys;     *)
(* durations are a number of seconds.                                      *)
(***************************************************************************)
EXTENDS Integers, Sequences, FiniteSets, TLC

VARIABLES
    config,   \* the Config aggregate every stage mutates in place
    cx,       \* the cli.Context handed to readOptions
    files,    \* the paths that exist on disk (read by fileExists)
    before,   \* the Config as it was when the last stage was entered
    last,     \* the stage that ran last
    err,      \* the error the last stage returned ("" is nil)
    pc        \* the stage to run next

vars == <<config, cx, files, before, last, err, pc>>

\* longest value list given to one slice flag on the command line
MaxSlice == 2

\* most descriptors given to the resource flag on the command line
MaxResources == 2

-----------------------------------------------------------------------------
(* strings *)

\* strings.HasPrefix
HasPrefix(s, p) == Len(s) >= Len(p) /\ SubSeq(s, 1, Len(p)) = p

\* strings.HasSuffix
HasSuffix(s, p) == Len(s) >= Len(p) /\ SubSeq(s, Len(s) - Len(p) + 1, Len(s)) = p

\* strings.TrimSuffix: removes one occurrence of the suffix, if present
TrimSuffix(s, p) == IF HasSuffix(s, p) THEN SubSeq(s, 1, Len(s) - Len(p)) ELSE s

\* the byte at position i (1-based) as a one-character string
At(s, i) == SubSeq(s, i, i)

\* strings.Index: position of the first occurrence of the byte c, 0 if none
RECURSIVE IndexFrom(_, _, _)
IndexFrom(s, c, i) ==
    IF i > Len(s) THEN 0
    ELSE IF At(s, i) = c THEN i
    ELSE IndexFrom(s, c, i + 1)

Index(s, c) == IndexFrom(s, c, 1)

\* strings.Split on a one-byte separator
RECURSIVE Split(_, _)
Split(s, c) ==
    LET i == Index(s, c)
    IN  IF i = 0 THEN <<s>>
        ELSE <<SubSeq(s, 1, i - 1)>> \o Split(SubSeq(s, i + 1, Len(s)), c)

\* strings.Join
RECURSIVE Join(_, _)
Join(list, sep) ==
    IF list = <<>> THEN ""
    ELSE IF Len(list) = 1 THEN list[1]
    ELSE list[1] \o sep \o Join(Tail(list), sep)

\* strconv.Itoa for the lengths an encryption key can have here
Digits == "0123456789"

RECURSIVE Itoa(_)
Itoa(n) ==
    IF n < 10 THEN At(Digits, n + 1)
    ELSE Itoa(n \div 10) \o At(Digits, (n % 10) + 1)

Letters == {"a", "b", "c", "d", "e", "f", "g", "h", "i", "j", "k", "l", "m",
            "n", "o", "p", "q", "r", "s", "t", "u", "v", "w", "x", "y", "z"}

DigitChars == {"0", "1", "2", "3", "4", "5", "6", "7", "8", "9"}

HexChars == DigitChars \cup {"a", "b", "c", "d", "e", "f"}

-----------------------------------------------------------------------------
(* library calls made by isValid *)

\* url.getscheme: the scheme is the run of letters (then letters, digits,
\* '+', '-', '.') before the first ':'; a leading ':' is an error
RECURSIVE getscheme(_, _)
getscheme(rawurl, i) ==
    IF i > Len(rawurl) THEN [scheme |-> "", rest |-> rawurl, ok |-> TRUE]
    ELSE LET c == At(rawurl, i)
         IN  IF c \in Letters THEN getscheme(rawurl, i + 1)
             ELSE IF c \in DigitChars \cup {"+", "-", "."}
                  THEN IF i = 1
                       THEN [scheme |-> "", rest |-> rawurl, ok |-> TRUE]
                       ELSE getscheme(rawurl, i + 1)
             ELSE IF c = ":"
                  THEN IF i = 1
                       THEN [scheme |-> "", rest |-> "", ok |-> FALSE]
                       ELSE [scheme |-> SubSeq(rawurl, 1, i - 1),
                             rest |-> SubSeq(rawurl, i + 1, Len(rawurl)),
                             ok |-> TRUE]
             ELSE [scheme |-> "", rest |-> rawurl, ok |-> TRUE]

\* url.unescape: every '%' is followed by two hexadecimal digits
RECURSIVE ValidEscapes(_, _)
ValidEscapes(s, i) ==
    IF i > Len(s) THEN TRUE
    ELSE IF At(s, i) = "%"
         THEN /\ i + 2 <= Len(s)
              /\ At(s, i + 1) \in HexChars
              /\ At(s, i + 2) \in HexChars
              /\ ValidEscapes(s, i + 3)
    ELSE ValidEscapes(s, i + 1)

\* strings.LastIndex of the byte c, 0 if none
RECURSIVE LastIndexFrom(_, _, _)
LastIndexFrom(s, c, i) ==
    IF i = 0 THEN 0
    ELSE IF At(s, i) = c THEN i
    ELSE LastIndexFrom(s, c, i - 1)

\* url.validOptionalPort applied to what follows the last ':' of the host
RECURSIVE AllDigits(_)
AllDigits(s) == s = "" \/ (At(s, 1) \in DigitChars /\ AllDigits(Tail(s)))

ValidHostPort(host) ==
    LET i == LastIndexFrom(host, ":", Len(host))
    IN  i = 0 \/ AllDigits(SubSeq(host, i + 1, Len(host)))

\* url.Parse succeeds.  Modelled for URLs written with lower-case letters,
\* digits and ":/.%+-", without userinfo, query or fragment: the scheme, the
\* colon in a first path segment, the port and the escapes of the path.
UrlParseOK(rawurl) ==
    LET g     == getscheme(rawurl, 1)
        rest  == g.rest
        colon == Index(rest, ":")
        slash == Index(rest, "/")
        auth  == HasPrefix(rest, "//") /\ (g.scheme # "" \/ ~HasPrefix(rest, "///"))
        tail  == SubSeq(rest, 3, Len(rest))
        cut   == Index(tail, "/")
        host  == IF cut = 0 THEN tail ELSE SubSeq(tail, 1, cut - 1)
        path  == IF ~auth THEN rest
                 ELSE IF cut = 0 THEN "" ELSE SubSeq(tail, cut, Len(tail))
    IN  IF rawurl = "*" THEN TRUE
        ELSE IF ~g.ok THEN FALSE
        ELSE IF ~HasPrefix(rest, "/") /\ g.scheme # "" THEN TRUE
        ELSE IF ~HasPrefix(rest, "/") /\ colon > 0 /\ (slash = 0 \/ colon < slash)
             THEN FALSE
        ELSE (auth => ValidHostPort(host)) /\ ValidEscapes(path, 1)

\* regexp.Compile succeeds.  Modelled for patterns written with letters,
\* digits and ".^$()|*+?": groups balance and every repetition operator has
\* an operand and follows no other repetition (one lazy '?' excepted).
RECURSIVE RegexpScan(_, _, _, _)
RegexpScan(s, i, depth, prev) ==
    IF i > Len(s) THEN depth = 0
    ELSE LET c == At(s, i)
         IN  IF c = "(" THEN RegexpScan(s, i + 1, depth + 1, "none")
             ELSE IF c = ")"
                  THEN depth > 0 /\ RegexpScan(s, i + 1, depth - 1, "atom")
             ELSE IF c = "|" THEN RegexpScan(s, i + 1, depth, "none")
             ELSE IF c \in {"*", "+", "?"}
                  THEN IF prev = "atom" THEN RegexpScan(s, i + 1, depth, "rep")
                       ELSE IF prev = "rep" /\ c = "?"
                            THEN RegexpScan(s, i + 1, depth, "lazy")
                       ELSE FALSE
             ELSE RegexpScan(s, i + 1, depth, "atom")

RegexpOK(s) == RegexpScan(s, 1, 0, "none")

\* fileExists: the path names something on disk
fileExists(path) == path \in files

-----------------------------------------------------------------------------
(* resources, key pairs and maps *)

\* newResource: a resource with no URL, methods or roles
newResource ==
    [URL |-> "", Methods |-> <<>>, Roles |-> <<>>, WhiteListed |-> FALSE]

\* strings.TrimSpace
RECURSIVE TrimSpace(_)
TrimSpace(s) ==
    IF s = "" THEN s
    ELSE IF At(s, 1) = " " THEN TrimSpace(Tail(s))
    ELSE IF At(s, Len(s)) = " " THEN TrimSpace(SubSeq(s, 1, Len(s) - 1))
    ELSE s

\* Resource.Parse over the '|'-separated segments left to read
RECURSIVE ParseSegments(_, _)
ParseSegments(segs, r) ==
    IF segs = <<>> THEN [ok |-> TRUE, resource |-> r]
    ELSE LET kp  == Split(segs[1], "=")
             key == TrimSpace(kp[1])
             val == TrimSpace(kp[2])
         IN  IF Len(kp) # 2 THEN [ok |-> FALSE, resource |-> r]
             ELSE IF key = "uri"
                  THEN ParseSegments(Tail(segs), [r EXCEPT !.URL = val])
             ELSE IF key = "methods"
                  THEN ParseSegments(Tail(segs), [r EXCEPT !.Methods = Split(val, ",")])
             ELSE IF key = "roles"
                  THEN ParseSegments(Tail(segs), [r EXCEPT !.Roles = Split(val, ",")])
             ELSE IF key = "white-listed" /\ val \in {"true", "false"}
                  THEN ParseSegments(Tail(segs), [r EXCEPT !.WhiteListed = (val = "true")])
             ELSE [ok |-> FALSE, resource |-> r]

\* Resource.Parse: a descriptor such as uri=/admin|methods=GET|roles=admin
Parse(x) == ParseSegments(Split(x, "|"), newResource)

\* Resource.IsValid: the error of a resource, "" when it has none
ResourceIsValid(r) == IF r.URL = "" THEN "resource does not have url" ELSE ""

\* the empty map[string]string
EmptyMap == [k \in {} |-> ""]

\* mergeMaps: every entry of source written into dest, source winning
mergeMaps(dest, source) ==
    [k \in DOMAIN dest \cup DOMAIN source |->
        IF k \in DOMAIN source THEN source[k] ELSE dest[k]]

\* decodeKeyPairs over the entries left to read, kp being the map so far
RECURSIVE decodeFrom(_, _)
decodeFrom(list, kp) ==
    IF list = <<>> THEN [ok |-> TRUE, kp |-> kp]
    ELSE LET i == Index(list[1], "=")
             k == SubSeq(list[1], 1, i - 1)
             v == SubSeq(list[1], i + 1, Len(list[1]))
         IN  IF i = 0 THEN [ok |-> FALSE, kp |-> kp]
             ELSE decodeFrom(Tail(list), mergeMaps(kp, [x \in {k} |-> v]))

\* decodeKeyPairs: the map of a list of key=value strings
decodeKeyPairs(list) == decodeFrom(list, EmptyMap)

-----------------------------------------------------------------------------
(* the Config aggregate *)

\* the zero value of CORS
ZeroCORS ==
    [Origins |-> <<>>, Methods |-> <<>>, Headers |-> <<>>,
     ExposedHeaders |-> <<>>, MaxAge |-> 0, Credentials |-> FALSE]

\* newDefaultConfig: the fields it sets, every other field at its zero value
newDefaultConfig ==
    [Listen                   |-> "127.0.0.1:3000",
     TagData                  |-> EmptyMap,
     MatchClaims              |-> EmptyMap,
     Headers                  |-> EmptyMap,
     UpstreamTimeout          |-> 10,
     UpstreamKeepaliveTimeout |-> 10,
     CookieAccessName         |-> "kc-access",
     CookieRefreshName        |-> "kc-state",
     SecureCookie             |-> TRUE,
     SkipUpstreamTLSVerify    |-> TRUE,
     CrossOrigin              |-> ZeroCORS,
     ClientSecret             |-> "",
     ClientID                 |-> "",
     DiscoveryURL             |-> "",
     Upstream                 |-> "",
     RevocationEndpoint       |-> "",
     UpstreamKeepalives       |-> FALSE,
     IdleDuration             |-> 0,
     SkipTokenVerification    |-> FALSE,
     EncryptionKey            |-> "",
     CookieDomain             |-> "",
     AddClaims                |-> <<>>,
     StoreURL                 |-> "",
     NoRedirects              |-> FALSE,
     RedirectionURL           |-> "",
     TLSCertificate           |-> "",
     TLSPrivateKey            |-> "",
     TLSCaCertificate         |-> "",
     TLSClientCertificate     |-> "",
     EnableMetrics            |-> FALSE,
     EnableProxyProtocol      |-> FALSE,
     EnableForwarding         |-> FALSE,
     EnableRefreshTokens      |-> FALSE,
     ForwardingUsername       |-> "",
     ForwardingPassword       |-> "",
     ForwardingDomains        |-> <<>>,
     SignInPage               |-> "",
     ForbiddenPage            |-> "",
     EnableSecurityFilter     |-> FALSE,
     LogJSONFormat            |-> FALSE,
     LogRequests              |-> FALSE,
     Verbose                  |-> FALSE,
     Scopes                   |-> <<>>,
     Hostnames                |-> <<>>,
     Resources                |-> <<>>]

-----------------------------------------------------------------------------
(* Config.isValid *)

\* validateTLS without the test for a certificate that has no private key
validateTLSNoKeyTest(r) ==
    IF r.Listen = ""
    THEN "you have not specified the listening interface"
    ELSE IF r.TLSPrivateKey # "" /\ r.TLSCertificate = ""
    THEN "you have not provided a certificate file"
    ELSE IF r.TLSCertificate # "" /\ ~fileExists(r.TLSCertificate)
    THEN "the tls certificate " \o r.TLSCertificate \o " does not exist"
    ELSE IF r.TLSPrivateKey # "" /\ ~fileExists(r.TLSPrivateKey)
    THEN "the tls private key " \o r.TLSPrivateKey \o " does not exist"
    ELSE IF r.TLSCaCertificate # "" /\ ~fileExists(r.TLSCaCertificate)
    THEN "the tls ca certificate file " \o r.TLSCaCertificate \o " does not exist"
    ELSE IF r.TLSClientCertificate # "" /\ ~fileExists(r.TLSClientCertificate)
    THEN "the tls client certificate " \o r.TLSClientCertificate \o " does not exist"
    ELSE ""

\* the listening interface and the TLS material; "" when nothing is wrong
validateTLS(r) ==
    IF r.Listen = ""
    THEN "you have not specified the listening interface"
    ELSE IF r.TLSCertificate # "" /\ r.TLSPrivateKey = ""
    THEN "you have not provided a private key"
    ELSE IF r.TLSPrivateKey # "" /\ r.TLSCertificate = ""
    THEN "you have not provided a certificate file"
    ELSE IF r.TLSCertificate # "" /\ ~fileExists(r.TLSCertificate)
    THEN "the tls certificate " \o r.TLSCertificate \o " does not exist"
    ELSE IF r.TLSPrivateKey # "" /\ ~fileExists(r.TLSPrivateKey)
    THEN "the tls private key " \o r.TLSPrivateKey \o " does not exist"
    ELSE IF r.TLSCaCertificate # "" /\ ~fileExists(r.TLSCaCertificate)
    THEN "the tls ca certificate file " \o r.TLSCaCertificate \o " does not exist"
    ELSE IF r.TLSClientCertificate # "" /\ ~fileExists(r.TLSClientCertificate)
    THEN "the tls client certificate " \o r.TLSClientCertificate \o " does not exist"
    ELSE ""

\* the branch taken when forwarding is enabled
validateForwarding(r) ==
    IF r.ClientID = "" THEN "you have not specified the client id"
    ELSE IF r.DiscoveryURL = "" THEN "you have not specified the discovery url"
    ELSE IF r.ForwardingUsername = "" THEN "no forwarding username"
    ELSE IF r.ForwardingPassword = "" THEN "no forwarding password"
    ELSE ""

\* the upstream endpoint of the reverse proxy (the parser's own message,
\* which the error ends with, is left out)
validateUpstream(r) ==
    IF r.Upstream = ""
    THEN "you have not specified an upstream endpoint to proxy to"
    ELSE IF ~UrlParseOK(r.Upstream)
    THEN "the upstream endpoint is invalid"
    ELSE ""

\* trimRedirectionURL that leaves the trailing slash in place
trimRedirectionURLKeepSlash(url) == url

\* the redirection url once the block has looked at it
trimRedirectionURL(url) ==
    IF HasSuffix(url, "/") THEN TrimSuffix(url, "/") ELSE url

\* validateEncryptionKey that asks for a key whether or not refresh tokens
\* are enabled
validateEncryptionKeyAlways(r) ==
    IF r.EncryptionKey = ""
    THEN "you have not specified a encryption key for encoding the session state"
    ELSE IF r.EnableRefreshTokens
            /\ (Len(r.EncryptionKey) # 16 /\ Len(r.EncryptionKey) # 32)
    THEN "the encryption key (" \o Itoa(Len(r.EncryptionKey))
         \o ") must be either 16 or 32 characters for AES-128/AES-256 selection"
    ELSE ""

\* validateEncryptionKey without the test of the key's length
validateEncryptionKeyAnyLength(r) ==
    IF r.EnableRefreshTokens /\ r.EncryptionKey = ""
    THEN "you have not specified a encryption key for encoding the session state"
    ELSE ""

\* the encryption key when refresh tokens are enabled
validateEncryptionKey(r) ==
    IF r.EnableRefreshTokens /\ r.EncryptionKey = ""
    THEN "you have not specified a encryption key for encoding the session state"
    ELSE IF r.EnableRefreshTokens
            /\ (Len(r.EncryptionKey) # 16 /\ Len(r.EncryptionKey) # 32)
    THEN "the encryption key (" \o Itoa(Len(r.EncryptionKey))
         \o ") must be either 16 or 32 characters for AES-128/AES-256 selection"
    ELSE ""

\* the block run when token verification is not skipped: the error and the
\* Config it leaves, whose redirection url has lost a trailing slash
validateVerification(r) ==
    IF r.ClientID = ""
    THEN [err |-> "you have not specified the client id", config |-> r]
    ELSE IF r.DiscoveryURL = ""
    THEN [err |-> "you have not specified the discovery url", config |-> r]
    ELSE LET t == [r EXCEPT !.RedirectionURL = trimRedirectionURL(r.RedirectionURL)]
         IN  IF validateEncryptionKey(t) # ""
             THEN [err |-> validateEncryptionKey(t), config |-> t]
             ELSE IF ~t.NoRedirects /\ t.SecureCookie
                     /\ ~HasPrefix(t.RedirectionURL, "https")
             THEN [err |-> "the cookie is set to secure but your redirection url is non-tls",
                   config |-> t]
             ELSE IF t.StoreURL # "" /\ ~UrlParseOK(t.StoreURL)
             THEN [err |-> "the store url is invalid", config |-> t]
             ELSE [err |-> "", config |-> t]

\* the loop over the resources: the error of the first invalid one
RECURSIVE validateResources(_)
validateResources(resources) ==
    IF resources = <<>> THEN ""
    ELSE IF ResourceIsValid(resources[1]) # "" THEN ResourceIsValid(resources[1])
    ELSE validateResources(Tail(resources))

\* the claims whose matcher is not a regular expression
InvalidClaims(r) == {k \in DOMAIN r.MatchClaims : ~RegexpOK(r.MatchClaims[k])}

\* the loop over the claim matchers, a map being ranged over in any order:
\* first is the invalid claim the loop meets first
validateClaims(r, first) ==
    IF InvalidClaims(r) = {} THEN ""
    ELSE "the claim matcher: " \o r.MatchClaims[first] \o " for claim: "
         \o first \o " is not a valid regex"

\* the claims the loop can meet first
FirstClaims(r) == IF InvalidClaims(r) = {} THEN {""} ELSE InvalidClaims(r)

\* the branch taken when forwarding is disabled
validateReverseProxy(r, first) ==
    IF validateUpstream(r) # "" THEN [err |-> validateUpstream(r), config |-> r]
    ELSE LET v == IF ~r.SkipTokenVerification THEN validateVerification(r)
                  ELSE [err |-> "", config |-> r]
         IN  IF v.err # "" THEN v
             ELSE IF validateResources(v.config.Resources) # ""
             THEN [err |-> validateResources(v.config.Resources), config |-> v.config]
             ELSE [err |-> validateClaims(v.config, first), config |-> v.config]

\* Config.isValid: the error returned ("" is nil) and the Config left behind
isValid(r, first) ==
    IF validateTLS(r) # "" THEN [err |-> validateTLS(r), config |-> r]
    ELSE IF r.EnableForwarding THEN [err |-> validateForwarding(r), config |-> r]
    ELSE validateReverseProxy(r, first)

-----------------------------------------------------------------------------
(* the command line: getOptions and the cli.Context *)

StringFlags ==
    {"config", "listen", "client-secret", "client-id", "discovery-url",
     "redirection-url", "revocation-url", "store-url", "upstream-url",
     "cookie-access-name", "cookie-refresh-name", "encryption-key",
     "forwarding-username", "forwarding-password", "tls-cert",
     "tls-private-key", "tls-ca-certificate", "tls-client-certificate",
     "signin-page", "forbidden-page"}

SliceFlags ==
    {"scope", "cookie-domain", "hostname", "forwarding-domains",
     "match-claims", "add-claims", "resource", "headers", "tag",
     "cors-origins", "cors-methods", "cors-headers", "cors-exposes-headers"}

BoolFlags ==
    {"token-validate-only", "enable-refresh-tokens", "no-redirects",
     "enable-metrics", "enable-proxy-protocol", "enable-forwarding",
     "cors-credentials", "enable-security-filter", "skip-token-verification",
     "verbose"}

BoolTFlags ==
    {"upstream-keepalives", "secure-cookie", "skip-upstream-tls-verify",
     "json-logging", "log-requests"}

DurationFlags ==
    {"idle-duration", "upstream-timeout", "upstream-keepalive-timeout",
     "cors-max-age"}

\* getOptions: the names of the flags the command line accepts
Flags == StringFlags \cup SliceFlags \cup BoolFlags \cup BoolTFlags \cup DurationFlags

\* getOptions: the value a flag has when the command line does not give it
FlagDefault(f) ==
    IF f = "listen" THEN newDefaultConfig.Listen
    ELSE IF f = "revocation-url" THEN "/oauth2/revoke"
    ELSE IF f = "upstream-url" THEN newDefaultConfig.Upstream
    ELSE IF f = "upstream-timeout" THEN newDefaultConfig.UpstreamTimeout
    ELSE IF f = "upstream-keepalive-timeout" THEN newDefaultConfig.UpstreamKeepaliveTimeout
    ELSE IF f = "cookie-access-name" THEN newDefaultConfig.CookieAccessName
    ELSE IF f = "cookie-refresh-name" THEN newDefaultConfig.CookieRefreshName
    ELSE IF f \in StringFlags THEN ""
    ELSE IF f \in SliceFlags THEN <<>>
    ELSE IF f \in BoolFlags THEN FALSE
    ELSE IF f \in BoolTFlags THEN TRUE
    ELSE 0

\* cli.Context.IsSet: the command line gave the flag
IsSet(c, name) == name \in c.set

\* StringSlice.String: the list as fmt prints it, [a b]
SliceString(list) == "[" \o Join(list, " ") \o "]"

\* cli.Context.String: the flag's value printed as a string, "" for a name
\* that is not a flag
String(c, name) ==
    IF name \notin Flags THEN ""
    ELSE IF name \in SliceFlags THEN SliceString(c.val[name])
    ELSE c.val[name]

\* cli.Context.Bool and BoolT
Bool(c, name) == IF name \in Flags THEN c.val[name] ELSE FALSE

\* cli.Context.Duration
Duration(c, name) == IF name \in Flags THEN c.val[name] ELSE 0

\* cli.Context.StringSlice
StringSlice(c, name) == IF name \in Flags THEN c.val[name] ELSE <<>>

-----------------------------------------------------------------------------
(* readOptions *)

\* the assignments of readOptions that cannot fail: scalars and lists
applyFields(c, r) ==
    [r EXCEPT
     !.Listen = IF String(c, "listen") # "" THEN String(c, "listen") ELSE @,
     !.ClientSecret = IF String(c, "client-secret") # ""
                      THEN String(c, "client-secret") ELSE @,
     !.ClientID = IF String(c, "client-id") # "" THEN String(c, "client-id") ELSE @,
     !.DiscoveryURL = IF String(c, "discovery-url") # ""
                      THEN String(c, "discovery-url") ELSE @,
     !.Upstream = IF String(c, "upstream-url") # ""
                  THEN String(c, "upstream-url") ELSE @,
     !.RevocationEndpoint = IF String(c, "revocation-url") # ""
                            THEN String(c, "revocation-url") ELSE @,
     !.UpstreamKeepalives = IF IsSet(c, "upstream-keepalives")
                            THEN Bool(c, "upstream-keepalives") ELSE @,
     !.UpstreamTimeout = IF IsSet(c, "upstream-timeout")
                         THEN Duration(c, "upstream-timeout") ELSE @,
     !.UpstreamKeepaliveTimeout = IF IsSet(c, "upstream-keepalive-timeout")
                                  THEN Duration(c, "upstream-keepalive-timeout") ELSE @,
     !.IdleDuration = IF IsSet(c, "idle-duration")
                      THEN Duration(c, "idle-duration") ELSE @,
     !.SkipTokenVerification = IF IsSet(c, "skip-token-verification")
                               THEN Bool(c, "skip-token-verification") ELSE @,
     !.SkipUpstreamTLSVerify = IF IsSet(c, "skip-upstream-tls-verify")
                               THEN Bool(c, "skip-upstream-tls-verify") ELSE @,
     !.EncryptionKey = IF IsSet(c, "encryption-key")
                       THEN String(c, "encryption-key") ELSE @,
     !.SecureCookie = IF IsSet(c, "secure-cookie") THEN Bool(c, "secure-cookie") ELSE @,
     !.CookieAccessName = IF IsSet(c, "cookie-access-name")
                          THEN String(c, "cookie-access-name") ELSE @,
     !.CookieRefreshName = IF IsSet(c, "cookie-refresh-name")
                           THEN String(c, "cookie-refresh-name") ELSE @,
     !.CookieDomain = IF IsSet(c, "cookie-domain")
                      THEN String(c, "cookie-domain") ELSE @,
     !.AddClaims = IF IsSet(c, "add-claims")
                   THEN @ \o StringSlice(c, "add-claims") ELSE @,
     !.StoreURL = IF String(c, "store-url") # "" THEN String(c, "store-url") ELSE @,
     !.NoRedirects = IF IsSet(c, "no-redirects") THEN Bool(c, "no-redirects") ELSE @,
     !.RedirectionURL = IF String(c, "redirection-url") # ""
                        THEN String(c, "redirection-url") ELSE @,
     !.TLSCertificate = IF IsSet(c, "tls-cert") THEN String(c, "tls-cert") ELSE @,
     !.TLSPrivateKey = IF IsSet(c, "tls-private-key")
                       THEN String(c, "tls-private-key") ELSE @,
     !.TLSCaCertificate = IF IsSet(c, "tls-ca-certificate")
                          THEN String(c, "tls-ca-certificate") ELSE @,
     !.TLSClientCertificate = IF IsSet(c, "tls-client-certificate")
                              THEN String(c, "tls-client-certificate") ELSE @,
     !.EnableMetrics = IF IsSet(c, "enable-metrics")
                       THEN Bool(c, "enable-metrics") ELSE @,
     !.EnableProxyProtocol = IF IsSet(c, "enable-proxy-protocol")
                             THEN Bool(c, "enable-proxy-protocol") ELSE @,
     !.EnableForwarding = IF IsSet(c, "enable-forwarding")
                          THEN Bool(c, "enable-forwarding") ELSE @,
     !.EnableRefreshTokens = IF IsSet(c, "enable-refresh-tokens")
                             THEN Bool(c, "enable-refresh-tokens") ELSE @,
     !.ForwardingUsername = IF IsSet(c, "forwarding-username")
                            THEN String(c, "forwarding-username") ELSE @,
     !.ForwardingPassword = IF IsSet(c, "forwarding-password")
                            THEN String(c, "forwarding-password") ELSE @,
     !.ForwardingDomains = IF IsSet(c, "forwarding-domains")
                           THEN @ \o StringSlice(c, "forwarding-domains") ELSE @,
     !.SignInPage = IF IsSet(c, "signin-page") THEN String(c, "signin-page") ELSE @,
     !.ForbiddenPage = IF IsSet(c, "forbidden-page")
                       THEN String(c, "forbidden-page") ELSE @,
     !.EnableSecurityFilter = IF IsSet(c, "enable-security-filter") THEN TRUE ELSE @,
     !.LogJSONFormat = IF IsSet(c, "json-logging") THEN Bool(c, "json-logging") ELSE @,
     !.LogRequests = IF IsSet(c, "log-requests") THEN Bool(c, "log-requests") ELSE @,
     !.Verbose = IF IsSet(c, "verbose") THEN Bool(c, "verbose") ELSE @,
     !.Scopes = IF IsSet(c, "scope") THEN StringSlice(c, "scope") ELSE @,
     !.Hostnames = IF IsSet(c, "hostname")
                   THEN @ \o StringSlice(c, "hostname") ELSE @,
     !.CrossOrigin.Origins = IF IsSet(c, "cors-origins")
                             THEN @ \o StringSlice(c, "cors-origins") ELSE @,
     !.CrossOrigin.Methods = IF IsSet(c, "cors-methods")
                             THEN @ \o StringSlice(c, "cors-methods") ELSE @,
     !.CrossOrigin.Headers = IF IsSet(c, "cors-headers")
                             THEN @ \o StringSlice(c, "cors-headers") ELSE @,
     !.CrossOrigin.ExposedHeaders = IF IsSet(c, "cors-exposed-headers")
                                    THEN @ \o StringSlice(c, "cors-exposed-headers")
                                    ELSE @,
     !.CrossOrigin.MaxAge = IF IsSet(c, "cors-max-age")
                            THEN Duration(c, "cors-max-age") ELSE @,
     !.CrossOrigin.Credentials = IF IsSet(c, "cors-credentials")
                                 THEN Bool(c, "cors-credentials") ELSE @]

\* one key-pair flag of readOptions: its entries decoded and merged;
\* tag, match-claims and headers alike are merged into MatchClaims
mergeKeyPairs(c, r, name) ==
    IF ~IsSet(c, name) THEN [err |-> "", config |-> r]
    ELSE LET d == decodeKeyPairs(StringSlice(c, name))
         IN  IF ~d.ok THEN [err |-> "invalid key-pair", config |-> r]
             ELSE [err |-> "",
                   config |-> [r EXCEPT !.MatchClaims = mergeMaps(@, d.kp)]]

\* the three key-pair flags in the order readOptions reads them
applyKeyPairs(c, r) ==
    LET t == mergeKeyPairs(c, r, "tag")
        m == mergeKeyPairs(c, t.config, "match-claims")
    IN  IF t.err # "" THEN t
        ELSE IF m.err # "" THEN m
        ELSE mergeKeyPairs(c, m.config, "headers")

\* the loop over the resource flag: each descriptor parsed and appended,
\* the loop left at the first that does not parse
RECURSIVE appendResources(_, _)
appendResources(list, r) ==
    IF list = <<>> THEN [err |-> "", config |-> r]
    ELSE LET p == Parse(list[1])
         IN  IF ~p.ok THEN [err |-> "invalid resource " \o list[1], config |-> r]
             ELSE appendResources(Tail(list),
                                  [r EXCEPT !.Resources = Append(@, p.resource)])

\* readOptions: the error returned ("" is nil) and the Config left behind
readOptions(c, r) ==
    LET k == applyKeyPairs(c, applyFields(c, r))
    IN  IF k.err # "" THEN k
        ELSE IF IsSet(c, "resource")
        THEN appendResources(StringSlice(c, "resource"), k.config)
        ELSE k

-----------------------------------------------------------------------------
(* readConfigFile *)

\* readConfigFile: the file is read and unmarshalled onto the Config; the
\* keys the document holds replace the fields, the absent ones keep theirs.
\* filepath.Ext yields ".json", never "json", so every file goes to the YAML
\* decoder, which reads JSON documents as well.
readConfigFile(file, r) ==
    IF ~file.readable THEN [err |-> "no such file or directory", config |-> r]
    ELSE IF ~file.wellformed THEN [err |-> "yaml: cannot unmarshal", config |-> r]
    ELSE [err |-> "",
          config |-> [f \in DOMAIN r |->
                        IF f \in DOMAIN file.content THEN file.content[f] ELSE r[f]]]

-----------------------------------------------------------------------------
(* the inputs: configuration files, command lines, disks *)

BoolFields ==
    {"SecureCookie", "SkipUpstreamTLSVerify", "UpstreamKeepalives",
     "SkipTokenVerification", "NoRedirects", "EnableMetrics",
     "EnableProxyProtocol", "EnableForwarding", "EnableRefreshTokens",
     "EnableSecurityFilter", "LogJSONFormat", "LogRequests", "Verbose"}

DurationFields == {"UpstreamTimeout", "UpstreamKeepaliveTimeout", "IdleDuration"}

ListFields == {"AddClaims", "ForwardingDomains", "Scopes", "Hostnames"}

FileResource ==
    [URL |-> "/file", Methods |-> <<"GET">>, Roles |-> <<"user">>,
     WhiteListed |-> FALSE]

FileCORS ==
    [Origins |-> <<"x">>, Methods |-> <<"GET">>, Headers |-> <<"y", "x">>,
     ExposedHeaders |-> <<"x">>, MaxAge |-> 20, Credentials |-> TRUE]

\* the values a configuration file gives a field
FileValues(f) ==
    IF f \in BoolFields THEN {~newDefaultConfig[f]}
    ELSE IF f \in DurationFields THEN {20}
    ELSE IF f \in ListFields THEN {<<"x">>, <<"y", "x">>}
    ELSE IF f \in {"TagData", "Headers"} THEN {[k \in {"a"} |-> "file"]}
    ELSE IF f = "MatchClaims" THEN {[k \in {"a"} |-> "^file$"]}
    ELSE IF f = "Resources" THEN {<<FileResource>>}
    ELSE IF f = "CrossOrigin" THEN {FileCORS}
    ELSE IF f = "Listen" THEN {"0.0.0.0:443"}
    ELSE IF f = "Upstream" THEN {"http://file"}
    ELSE IF f = "RedirectionURL" THEN {"https://file/"}
    ELSE IF f = "StoreURL" THEN {"redis://file"}
    ELSE IF f = "RevocationEndpoint" THEN {"/file/revoke"}
    ELSE IF f = "TLSCertificate" THEN {"cert.pem"}
    ELSE IF f = "TLSPrivateKey" THEN {"key.pem"}
    ELSE IF f = "TLSCaCertificate" THEN {"ca.pem"}
    ELSE IF f = "TLSClientCertificate" THEN {"client.pem"}
    ELSE {"file"}

\* a document that configures the reverse proxy completely
ProxyDocument ==
    [f \in {"ClientID", "DiscoveryURL", "Upstream", "RedirectionURL"} |->
        IF f = "ClientID" THEN "file"
        ELSE IF f = "DiscoveryURL" THEN "https://idp/file"
        ELSE IF f = "Upstream" THEN "http://file"
        ELSE "https://file/"]

\* a document that configures the forwarding proxy completely
ForwardingDocument ==
    [f \in {"ClientID", "DiscoveryURL", "EnableForwarding",
            "ForwardingUsername", "ForwardingPassword"} |->
        IF f = "ClientID" THEN "file"
        ELSE IF f = "DiscoveryURL" THEN "https://idp/file"
        ELSE IF f = "EnableForwarding" THEN TRUE
        ELSE "file"]

\* the documents a configuration file holds: one key, or a complete setup
Documents ==
    UNION {{[k \in {f} |-> v] : v \in FileValues(f)} : f \in DOMAIN newDefaultConfig}
    \cup {ProxyDocument, ForwardingDocument}

\* the configuration files: missing, malformed, or holding a document
ConfigFiles ==
    {[readable |-> FALSE, wellformed |-> FALSE, content |-> EmptyMap],
     [readable |-> TRUE, wellformed |-> FALSE, content |-> EmptyMap]}
    \cup {[readable |-> TRUE, wellformed |-> TRUE, content |-> d] : d \in Documents}

\* the non-empty sequences over S of at most n elements
SeqsUpTo(S, n) == UNION {[1..k -> S] : k \in 1..n}

KeyPairFlags == {"tag", "match-claims", "headers"}

\* the values the command line gives a flag
FlagValues(f) ==
    IF f \in BoolFlags \cup BoolTFlags THEN BOOLEAN
    ELSE IF f \in DurationFlags THEN {0, 30}
    ELSE IF f \in KeyPairFlags THEN SeqsUpTo({"a=cli", "b=cli", "novalue"}, MaxSlice)
    ELSE IF f = "resource"
         THEN SeqsUpTo({"uri=/admin|methods=GET,POST|roles=admin", "uri = /cli",
                        "methods=GET", "bogus=1"}, MaxResources)
    ELSE IF f \in SliceFlags THEN SeqsUpTo({"x", "y"}, MaxSlice)
    ELSE IF f = "listen" THEN {"", "0.0.0.0:80"}
    ELSE IF f = "upstream-url" THEN {"", "http://cli"}
    ELSE IF f = "redirection-url" THEN {"", "https://cli/"}
    ELSE IF f = "store-url" THEN {"", "redis://cli"}
    ELSE IF f = "encryption-key" THEN {"", "0123456789abcdef"}
    ELSE {"", "cli"}

\* the cli.Context of a command line that gives no flag
NoOptions == [set |-> {}, val |-> [f \in Flags |-> FlagDefault(f)]]

\* the cli.Context of a command line that gives the flag f the value v
OneOption(f, v) == [set |-> {f}, val |-> [NoOptions.val EXCEPT ![f] = v]]

\* the command lines: no flag, or one flag
Contexts ==
    {NoOptions} \cup UNION {{OneOption(f, v) : v \in FlagValues(f)} : f \in Flags}

Paths == {"cert.pem", "key.pem", "ca.pem", "client.pem"}

-----------------------------------------------------------------------------
(* the start-up sequence: defaults, file, command line, validation *)

Init ==
    /\ config = newDefaultConfig
    /\ cx = NoOptions
    /\ files \in {{}, Paths}
    /\ before = newDefaultConfig
    /\ last = "newDefaultConfig"
    /\ err = ""
    /\ pc = "readConfigFile"

\* a configuration file was named: it is read onto the defaults
ReadConfigFile ==
    /\ pc = "readConfigFile"
    /\ \E file \in ConfigFiles :
         LET r == readConfigFile(file, config)
         IN  /\ config' = r.config
             /\ err' = r.err
             /\ pc' = IF r.err = "" THEN "readOptions" ELSE "exit"
    /\ before' = config
    /\ last' = "readConfigFile"
    /\ UNCHANGED <<cx, files>>

\* no configuration file was named
SkipConfigFile ==
    /\ pc = "readConfigFile"
    /\ pc' = "readOptions"
    /\ UNCHANGED <<config, cx, files, before, last, err>>

\* the command line is read onto the Config
ReadOptions ==
    /\ pc = "readOptions"
    /\ \E c \in Contexts :
         LET r == readOptions(c, config)
         IN  /\ cx' = c
             /\ config' = r.config
             /\ err' = r.err
             /\ pc' = IF r.err = "" THEN "isValid" ELSE "exit"
    /\ before' = config
    /\ last' = "readOptions"
    /\ UNCHANGED files

\* the Config is validated; the proxy runs only when it is valid
IsValid ==
    /\ pc = "isValid"
    /\ \E first \in FirstClaims(config) :
         LET r == isValid(config, first)
         IN  /\ config' = r.config
             /\ err' = r.err
             /\ pc' = IF r.err = "" THEN "run" ELSE "exit"
    /\ before' = config
    /\ last' = "isValid"
    /\ UNCHANGED <<cx, files>>

Next == ReadConfigFile \/ SkipConfigFile \/ ReadOptions \/ IsValid

Spec == Init /\ [][Next]_vars

-----------------------------------------------------------------------------
(* isValid on its own, over the Configs the overlays can leave *)

\* a reverse proxy isValid accepts
ProxyConfig ==
    [newDefaultConfig EXCEPT !.Upstream = "http://up", !.ClientID = "client",
                             !.DiscoveryURL = "https://idp/realm",
                             !.RedirectionURL = "https://a"]

\* a forwarding proxy isValid accepts
ForwardingConfig ==
    [newDefaultConfig EXCEPT !.EnableForwarding = TRUE, !.ClientID = "client",
                             !.DiscoveryURL = "https://idp/realm",
                             !.ForwardingUsername = "user",
                             !.ForwardingPassword = "pass"]

\* a string of n characters
RECURSIVE KeyOfLen(_)
KeyOfLen(n) == IF n = 0 THEN "" ELSE "k" \o KeyOfLen(n - 1)

EncryptionKeys == {KeyOfLen(n) : n \in {0, 15, 16, 32}}

RedirectionURLs == {"", "https://a", "https://a/", "https://a//", "http://a/"}

UpstreamURLs == {"", "http://up", ":8080"}

StoreURLs == {"", "redis://store", "%zz"}

ValidResource ==
    [URL |-> "/admin", Methods |-> <<"GET">>, Roles |-> <<"admin">>,
     WhiteListed |-> FALSE]

NoURLResource ==
    [URL |-> "", Methods |-> <<"GET">>, Roles |-> <<>>, WhiteListed |-> FALSE]

ResourceLists == {<<>>, <<ValidResource>>, <<ValidResource, NoURLResource>>}

ClaimMaps ==
    {EmptyMap,
     [k \in {"aud"} |-> "^ab.*$"],
     [k \in {"aud", "iss"} |-> IF k = "aud" THEN "a(b" ELSE "*a"]}

\* Configs that differ in the listening interface and the TLS material
TLSInputs ==
    {[b EXCEPT !.Listen = l, !.TLSCertificate = c, !.TLSPrivateKey = k,
               !.TLSCaCertificate = ca, !.TLSClientCertificate = cl] :
        b \in {newDefaultConfig, ProxyConfig, ForwardingConfig},
        l \in {"", "127.0.0.1:3000"},
        c \in {"", "cert.pem"}, k \in {"", "key.pem"},
        ca \in {"", "ca.pem"}, cl \in {"", "client.pem"}}

\* reverse-proxy Configs that differ in what the forwarding-disabled branch reads
ProxyInputs ==
    {[newDefaultConfig EXCEPT
        !.ClientID = id, !.DiscoveryURL = disc, !.Upstream = up,
        !.SkipTokenVerification = skip, !.RedirectionURL = redir,
        !.EnableRefreshTokens = refresh, !.EncryptionKey = key,
        !.NoRedirects = nored, !.SecureCookie = secure, !.StoreURL = store,
        !.Resources = res, !.MatchClaims = claims] :
        id \in {"", "client"}, disc \in {"", "https://idp/realm"},
        up \in UpstreamURLs, skip \in BOOLEAN,
        redir \in RedirectionURLs, refresh \in BOOLEAN, key \in EncryptionKeys,
        nored \in BOOLEAN, secure \in BOOLEAN, store \in StoreURLs,
        res \in ResourceLists, claims \in ClaimMaps}

\* forwarding Configs that differ in what the forwarding branch reads and in
\* what it leaves unread
ForwardingInputs ==
    {[newDefaultConfig EXCEPT
        !.EnableForwarding = TRUE,
        !.ClientID = id, !.DiscoveryURL = disc,
        !.ForwardingUsername = user, !.ForwardingPassword = pass,
        !.SkipTokenVerification = skip, !.RedirectionURL = redir,
        !.EnableRefreshTokens = refresh, !.EncryptionKey = key,
        !.Resources = res, !.MatchClaims = claims] :
        id \in {"", "client"}, disc \in {"", "https://idp/realm"},
        user \in {"", "user"}, pass \in {"", "pass"}, skip \in BOOLEAN,
        redir \in RedirectionURLs, refresh \in BOOLEAN, key \in EncryptionKeys,
        res \in ResourceLists, claims \in ClaimMaps}

InitValid ==
    /\ \/ config \in TLSInputs /\ files \in SUBSET Paths
       \/ config \in ProxyInputs \cup ForwardingInputs /\ files = {}
    /\ cx = NoOptions
    /\ before = config
    /\ last = "readOptions"
    /\ err = ""
    /\ pc = "isValid"

NextValid == IsValid

SpecValid == InitValid /\ [][NextValid]_vars

-----------------------------------------------------------------------------
(* what the claims speak of *)

\* the Config field a scalar flag is meant for
TargetField(f) ==
    IF f = "listen" THEN "Listen"
    ELSE IF f = "client-secret" THEN "ClientSecret"
    ELSE IF f = "client-id" THEN "ClientID"
    ELSE IF f = "discovery-url" THEN "DiscoveryURL"
    ELSE IF f = "upstream-url" THEN "Upstream"
    ELSE IF f = "revocation-url" THEN "RevocationEndpoint"
    ELSE IF f = "upstream-keepalives" THEN "UpstreamKeepalives"
    ELSE IF f = "upstream-timeout" THEN "UpstreamTimeout"
    ELSE IF f = "upstream-keepalive-timeout" THEN "UpstreamKeepaliveTimeout"
    ELSE IF f = "idle-duration" THEN "IdleDuration"
    ELSE IF f = "skip-token-verification" THEN "SkipTokenVerification"
    ELSE IF f = "skip-upstream-tls-verify" THEN "SkipUpstreamTLSVerify"
    ELSE IF f = "encryption-key" THEN "EncryptionKey"
    ELSE IF f = "secure-cookie" THEN "SecureCookie"
    ELSE IF f = "cookie-access-name" THEN "CookieAccessName"
    ELSE IF f = "cookie-refresh-name" THEN "CookieRefreshName"
    ELSE IF f = "store-url" THEN "StoreURL"
    ELSE IF f = "no-redirects" THEN "NoRedirects"
    ELSE IF f = "redirection-url" THEN "RedirectionURL"
    ELSE IF f = "tls-cert" THEN "TLSCertificate"
    ELSE IF f = "tls-private-key" THEN "TLSPrivateKey"
    ELSE IF f = "tls-ca-certificate" THEN "TLSCaCertificate"
    ELSE IF f = "tls-client-certificate" THEN "TLSClientCertificate"
    ELSE IF f = "enable-metrics" THEN "EnableMetrics"
    ELSE IF f = "enable-proxy-protocol" THEN "EnableProxyProtocol"
    ELSE IF f = "enable-forwarding" THEN "EnableForwarding"
    ELSE IF f = "enable-refresh-tokens" THEN "EnableRefreshTokens"
    ELSE IF f = "forwarding-username" THEN "ForwardingUsername"
    ELSE IF f = "forwarding-password" THEN "ForwardingPassword"
    ELSE IF f = "signin-page" THEN "SignInPage"
    ELSE IF f = "forbidden-page" THEN "ForbiddenPage"
    ELSE IF f = "enable-security-filter" THEN "EnableSecurityFilter"
    ELSE IF f = "json-logging" THEN "LogJSONFormat"
    ELSE IF f = "log-requests" THEN "LogRequests"
    ELSE IF f = "verbose" THEN "Verbose"
    ELSE IF f = "scope" THEN "Scopes"
    ELSE IF f = "hostname" THEN "Hostnames"
    ELSE IF f = "add-claims" THEN "AddClaims"
    ELSE IF f = "forwarding-domains" THEN "ForwardingDomains"
    ELSE IF f = "tag" THEN "TagData"
    ELSE IF f = "match-claims" THEN "MatchClaims"
    ELSE IF f = "headers" THEN "Headers"
    ELSE IF f = "resource" THEN "Resources"
    ELSE "CrossOrigin"

\* the part of CrossOrigin a cors flag is meant for
TargetCORS(f) ==
    IF f = "cors-origins" THEN "Origins"
    ELSE IF f = "cors-methods" THEN "Methods"
    ELSE IF f = "cors-headers" THEN "Headers"
    ELSE IF f = "cors-exposes-headers" THEN "ExposedHeaders"
    ELSE IF f = "cors-max-age" THEN "MaxAge"
    ELSE "Credentials"

\* the value a Config holds where the flag f is meant to go
TargetValue(r, f) ==
    IF TargetField(f) = "CrossOrigin" THEN r.CrossOrigin[TargetCORS(f)]
    ELSE r[TargetField(f)]

\* the string, boolean and duration flags readOptions reads into a field
ScalarFlags ==
    ((StringFlags \ {"config"}) \cup (BoolFlags \ {"token-validate-only"})
     \cup BoolTFlags \cup DurationFlags)

\* the list flags whose values are appended
AppendFlags ==
    {"hostname", "add-claims", "forwarding-domains", "cors-origins",
     "cors-methods", "cors-headers", "cors-exposes-headers"}

\* the errors isValid has for the certificate and the private key
CertificateErrors(r) ==
    {"you have not provided a private key",
     "you have not provided a certificate file",
     "the tls certificate " \o r.TLSCertificate \o " does not exist",
     "the tls private key " \o r.TLSPrivateKey \o " does not exist"}

\* s without its last character
DropLast(s) == SubSeq(s, 1, Len(s) - 1)

\* the Config differs from the defaults in the named fields at most
DefaultsBut(r, fields) ==
    \A f \in DOMAIN newDefaultConfig \ fields : r[f] = newDefaultConfig[f]

-----------------------------------------------------------------------------
(* the claims *)

\* C1: readOptions with no flag given on the command line leaves every field
\* of the Config as it found it.
NoOptionsIsNoOp ==
    (last = "readOptions" /\ cx.set = {}) => config = before

\* C2: a default Config whose Upstream alone was changed, to a valid URL,
\* forwarding disabled, is accepted by isValid.
DefaultWithUpstreamAccepted ==
    (/\ last = "isValid"
     /\ DefaultsBut(before, {"Upstream"})
     /\ before.Upstream # "" /\ UrlParseOK(before.Upstream))
    => err = ""

\* C2 amended: a default Config changed in Upstream (a valid URL), and either
\* in SkipTokenVerification (set) or in ClientID and DiscoveryURL (non-empty)
\* and RedirectionURL (starting with https), forwarding disabled, is accepted
\* by isValid.
DefaultWithIdentityAccepted ==
    (/\ last = "isValid"
     /\ DefaultsBut(before, {"Upstream", "SkipTokenVerification", "ClientID",
                             "DiscoveryURL", "RedirectionURL"})
     /\ before.Upstream # "" /\ UrlParseOK(before.Upstream)
     /\ \/ before.SkipTokenVerification
        \/ /\ before.ClientID # "" /\ before.DiscoveryURL # ""
           /\ HasPrefix(before.RedirectionURL, "https"))
    => err = ""

\* C2 witness: isValid has accepted the defaults with an upstream, a client
\* id, a discovery url and an https redirection url, verification not skipped.
DefaultWithIdentityWitness ==
    /\ last = "isValid" /\ err = "" /\ pc = "run"
    /\ DefaultsBut(before, {"Upstream", "ClientID", "DiscoveryURL", "RedirectionURL"})
    /\ before.Upstream = "http://up" /\ before.ClientID = "client"
    /\ before.RedirectionURL = "https://a/"

\* C3: every scalar flag given on the command line has its value in its
\* field once readOptions has run, the empty string and false included.
ScalarOptionsOverwrite ==
    last = "readOptions" =>
        \A f \in cx.set \cap ScalarFlags : TargetValue(config, f) = cx.val[f]

\* C4: each key-pair flag is merged into its own map, the flag's entries
\* winning, and the maps of the key-pair flags not given stay as they were.
KeyPairsMergeIntoOwnMap ==
    (last = "readOptions" /\ err = "") =>
        \A f \in cx.set \cap KeyPairFlags :
            /\ TargetValue(config, f)
                 = mergeMaps(TargetValue(before, f), decodeKeyPairs(cx.val[f]).kp)
            /\ \A g \in KeyPairFlags \ cx.set :
                 TargetValue(config, g) = TargetValue(before, g)

\* C5: when a descriptor of the resource flag does not parse, readOptions
\* fails and Resources is what it was before the call.
FailedResourceCommitsNothing ==
    (/\ last = "readOptions" /\ "resource" \in cx.set
     /\ \E i \in DOMAIN cx.val["resource"] : ~Parse(cx.val["resource"][i]).ok)
    => (err # "" /\ config.Resources = before.Resources)

\* C6: a list flag given on the command line leaves its field as what it held
\* followed by the flag's values; the scope flag leaves exactly its values.
ListOptionsAppend ==
    last = "readOptions" =>
        /\ \A f \in cx.set \cap AppendFlags :
             TargetValue(config, f) = TargetValue(before, f) \o cx.val[f]
        /\ "scope" \in cx.set => config.Scopes = cx.val["scope"]

\* C7: a Config isValid accepts has no resource without a URL, in any mode.
AcceptedResourcesValid ==
    (last = "isValid" /\ err = "") =>
        \A i \in DOMAIN config.Resources : config.Resources[i].URL # ""

\* C8: with verification not skipped and refresh tokens enabled, isValid
\* rejects a Config whose encryption key is not 16 or 32 characters long,
\* forwarding or not.
BadKeyRejected ==
    (/\ last = "isValid"
     /\ ~before.SkipTokenVerification /\ before.EnableRefreshTokens
     /\ Len(before.EncryptionKey) \notin {16, 32})
    => err # ""

\* C8 amended: with forwarding disabled, verification not skipped and refresh
\* tokens enabled, isValid rejects a Config whose encryption key is not 16 or
\* 32 characters long.
BadKeyRejectedByProxy ==
    (/\ last = "isValid"
     /\ ~before.EnableForwarding
     /\ ~before.SkipTokenVerification /\ before.EnableRefreshTokens
     /\ Len(before.EncryptionKey) \notin {16, 32})
    => err # ""

\* C8 witness: isValid has rejected a reverse proxy for a key of 15 characters.
BadKeyWitness ==
    /\ last = "isValid" /\ pc = "exit"
    /\ ~before.EnableForwarding /\ ~before.SkipTokenVerification
    /\ before.EnableRefreshTokens /\ Len(before.EncryptionKey) = 15
    /\ HasPrefix(err, "the encryption key (15) must be")

\* C9: isValid fails whenever exactly one of the certificate and the private
\* key is set; when neither is set, or both are and both files exist, its
\* error is none of the certificate and private key errors.
CertificateNeedsKey ==
    last = "isValid" =>
        LET cert == before.TLSCertificate
            key  == before.TLSPrivateKey
        IN  /\ (cert = "") # (key = "") => err # ""
            /\ (\/ cert = "" /\ key = ""
                \/ cert # "" /\ key # "" /\ cert \in files /\ key \in files)
               => err \notin CertificateErrors(before)

\* C9 witness: isValid has rejected a certificate that came without a key.
CertificateNeedsKeyWitness ==
    /\ last = "isValid" /\ pc = "exit"
    /\ before.Listen # "" /\ before.TLSCertificate = "cert.pem"
    /\ before.TLSPrivateKey = "" /\ "cert.pem" \in files
    /\ err = "you have not provided a private key"

\* C10: a Config isValid accepts with verification not skipped has a
\* RedirectionURL that does not end with a slash, in any mode and however
\* many slashes it ended with.
TrailingSlashStripped ==
    (last = "isValid" /\ err = "" /\ ~before.SkipTokenVerification)
    => ~HasSuffix(config.RedirectionURL, "/")

\* C10 amended: a Config isValid accepts with forwarding disabled and
\* verification not skipped has the RedirectionURL it had less one trailing
\* slash, if it had one; it ends with a slash only if it ended with two.
OneTrailingSlashStripped ==
    (/\ last = "isValid" /\ err = ""
     /\ ~before.EnableForwarding /\ ~before.SkipTokenVerification)
    => /\ config.RedirectionURL
            = IF HasSuffix(before.RedirectionURL, "/")
              THEN DropLast(before.RedirectionURL)
              ELSE before.RedirectionURL
       /\ HasSuffix(config.RedirectionURL, "/")
            => HasSuffix(before.RedirectionURL, "//")

\* C10 witness: isValid has accepted a reverse proxy and taken the slash off
\* its redirection url.
OneTrailingSlashWitness ==
    /\ last = "isValid" /\ pc = "run"
    /\ ~before.EnableForwarding /\ ~before.SkipTokenVerification
    /\ before.RedirectionURL = "https://a/"
    /\ config.RedirectionURL = "https://a"

====
